---- MODULE Spec2Model ----
(***************************************************************************)
(* Model of news_cli.py: the two validator factories, the argument parser  *)
(* built by create_parser, and one run of main.                            *)
(*                                                                         *)
(* A Python str is a sequence of one-character strings; iterating over a   *)
(* str yields its characters as strings of length 1.  The command line is  *)
(* a sequence of option occurrences, each an option string with the raw    *)
(* text that follows it.                                                   *)
(***************************************************************************)
EXTENDS Integers, Sequences, FiniteSets, TLC

\* ---------------------------------------------------------------- bounds
MaxArgs == 2
MaxTextLen == 2

\* ------------------------------------------------------ program constants
StrLower == 0
StrUpper == 255
IntLower == 0
\* Variant: the upper bound read as inclusive.
IntUpper_inclusive == 10 + 1
IntUpper == 10
\* Variant: the upper bound read as inclusive.
TimeoutUpper_inclusive == 60 + 1
TimeoutUpper == 60
DefaultArticleCount == 10
DefaultTimeout == 10
MissingKeyExit == 22
ArgparseErrorExit == 2
VersionExit == 0
UncaughtExit == 1
SuccessExit == 0
BASE_URL == "https://gnews.io/api/v4/search"

\* ------------------------------------------------------------ Python str
Rep(c, n) == [i \in 1..n |-> c]

\* Iterating over a str: the i-th item is the one-character str s[i].
StrIter(s) == [i \in 1..Len(s) |-> <<s[i]>>]

Digits == <<"0", "1", "2", "3", "4", "5", "6", "7", "8", "9">>
DigitSet == {Digits[i] : i \in 1..10}
DigitVal(c) == (CHOOSE i \in 1..10 : Digits[i] = c) - 1

RECURSIVE LStrip(_)
LStrip(s) == IF s # <<>> /\ Head(s) = " " THEN LStrip(Tail(s)) ELSE s

RECURSIVE RStrip(_)
RStrip(s) == IF s # <<>> /\ s[Len(s)] = " " THEN RStrip(SubSeq(s, 1, Len(s) - 1)) ELSE s

\* Digits of an int() literal: decimal digits, single underscores allowed
\* between two digits only.
WellFormedDigits(b) ==
    /\ b # <<>>
    /\ \A i \in 1..Len(b) : b[i] \in DigitSet \cup {"_"}
    /\ b[1] # "_"
    /\ b[Len(b)] # "_"
    /\ \A i \in 1..(Len(b) - 1) : ~(b[i] = "_" /\ b[i + 1] = "_")

RECURSIVE DigitsValue(_, _)
DigitsValue(b, acc) ==
    IF b = <<>> THEN acc
    ELSE IF Head(b) = "_" THEN DigitsValue(Tail(b), acc)
    ELSE DigitsValue(Tail(b), 10 * acc + DigitVal(Head(b)))

\* int(text): surrounding blanks stripped, optional sign, decimal digits.
\* ok = FALSE stands for ValueError.
PyInt(text) ==
    LET s == RStrip(LStrip(text))
        signed == s # <<>> /\ Head(s) \in {"+", "-"}
        body == IF signed THEN Tail(s) ELSE s
    IN  IF WellFormedDigits(body)
        THEN [ok |-> TRUE,
              val |-> IF signed /\ Head(s) = "-" THEN 0 - DigitsValue(body, 0)
                      ELSE DigitsValue(body, 0)]
        ELSE [ok |-> FALSE, val |-> 0]

RECURSIVE NatToStr(_)
NatToStr(n) == IF n < 10 THEN <<Digits[n + 1]>>
               ELSE NatToStr(n \div 10) \o <<Digits[(n % 10) + 1]>>

\* str(n)
PyStr(n) == IF n < 0 THEN <<"-">> \o NatToStr(0 - n) ELSE NatToStr(n)

\* Variant: joined with the empty separator.
RECURSIVE JoinSpace_nosep(_)
JoinSpace_nosep(list) ==
    IF list = <<>> THEN <<>> ELSE list[1] \o JoinSpace_nosep(Tail(list))

\* " ".join(list)
RECURSIVE JoinSpace(_)
JoinSpace(list) ==
    IF list = <<>> THEN <<>>
    ELSE IF Len(list) = 1 THEN list[1]
    ELSE list[1] \o <<" ">> \o JoinSpace(Tail(list))

\* ------------------------------------------------------------ validators
\* ok = FALSE stands for ArgumentTypeError.
verify_str_length_inner(lower, upper, argument_value_list) ==
    LET items == StrIter(argument_value_list)
    IN  IF \E i \in 1..Len(items) : Len(items[i]) <= lower \/ Len(items[i]) >= upper
        THEN [ok |-> FALSE, val |-> <<>>]
        ELSE [ok |-> TRUE, val |-> argument_value_list]

\* Variant: count > upper in place of count >= upper.
verify_int_range_inner_upper_incl(lower, upper, raw_argument_value) ==
    LET count == PyInt(raw_argument_value)
    IN  IF ~count.ok THEN [ok |-> FALSE, val |-> 0]
        ELSE IF count.val <= lower THEN [ok |-> FALSE, val |-> 0]
        ELSE IF count.val > upper THEN [ok |-> FALSE, val |-> 0]
        ELSE [ok |-> TRUE, val |-> count.val]

\* Variant: count < lower in place of count <= lower.
verify_int_range_inner_lower_incl(lower, upper, raw_argument_value) ==
    LET count == PyInt(raw_argument_value)
    IN  IF ~count.ok THEN [ok |-> FALSE, val |-> 0]
        ELSE IF count.val < lower THEN [ok |-> FALSE, val |-> 0]
        ELSE IF count.val >= upper THEN [ok |-> FALSE, val |-> 0]
        ELSE [ok |-> TRUE, val |-> count.val]

verify_int_range_inner(lower, upper, raw_argument_value) ==
    LET count == PyInt(raw_argument_value)
    IN  IF ~count.ok THEN [ok |-> FALSE, val |-> 0]
        ELSE IF count.val <= lower THEN [ok |-> FALSE, val |-> 0]
        ELSE IF count.val >= upper THEN [ok |-> FALSE, val |-> 0]
        ELSE [ok |-> TRUE, val |-> count.val]

\* ---------------------------------------------------------------- parser
TopicFlags == {"--topic", "-t"}
VersionFlags == {"--version", "-v"}
CountFlags == {"--article_count", "-c"}
TimeoutFlags == {"--timeout"}
OptionStrings == TopicFlags \cup VersionFlags \cup CountFlags \cup TimeoutFlags

\* Namespace before any option is seen: topic is None (no list yet), the two
\* integers hold their defaults.
DefaultNamespace ==
    [topic |-> <<>>, article_count |-> DefaultArticleCount, timeout |-> DefaultTimeout]

ParseError == [status |-> "error", ns |-> DefaultNamespace]
ParseVersion == [status |-> "version", ns |-> DefaultNamespace]

\* Options are consumed left to right; the type function runs before the
\* action stores its value; the version action exits where it stands;
\* unrecognised options and the missing required option are reported after
\* the last argument.
RECURSIVE consume(_, _, _, _)
consume(av, i, ns, extras) ==
    IF i > Len(av)
    THEN IF ns.topic = <<>> \/ extras THEN ParseError
         ELSE [status |-> "ok", ns |-> ns]
    ELSE LET opt == av[i].opt
             raw == av[i].val
         IN  IF opt \in TopicFlags
             THEN LET r == verify_str_length_inner(StrLower, StrUpper, raw)
                  IN  IF r.ok
                      THEN consume(av, i + 1, [ns EXCEPT !.topic = Append(@, r.val)], extras)
                      ELSE ParseError
             ELSE IF opt \in VersionFlags
             THEN ParseVersion
             ELSE IF opt \in CountFlags
             THEN LET r == verify_int_range_inner(IntLower, IntUpper, raw)
                  IN  IF r.ok
                      THEN consume(av, i + 1, [ns EXCEPT !.article_count = r.val], extras)
                      ELSE ParseError
             ELSE IF opt \in TimeoutFlags
             THEN LET r == verify_int_range_inner(IntLower, TimeoutUpper, raw)
                  IN  IF r.ok
                      THEN consume(av, i + 1, [ns EXCEPT !.timeout = r.val], extras)
                      ELSE ParseError
             ELSE consume(av, i + 1, ns, TRUE)

parse_args(av) == consume(av, 1, DefaultNamespace, FALSE)

\* ------------------------------------------------------------------ inputs
TopicTexts ==
    {<<>>, <<"a">>, <<"b">>, <<"a", "b">>,
     Rep("a", StrUpper - 1), Rep("a", StrUpper), Rep("a", StrUpper + 1)}

IntTexts ==
    {<<"0">>, <<"1">>, <<"5">>, <<"9">>, <<"1", "0">>, <<"2", "0">>, <<"2", "6">>,
     <<"5", "9">>, <<"6", "0">>, <<"6", "1">>, <<"1", "0", "0", "0">>,
     <<"-", "2", "0", "0">>, <<"a">>, <<"1", "a">>}

Arg(o, v) == [opt |-> o, val |-> v]

ArgItems ==
    {Arg(o, v) : o \in TopicFlags, v \in TopicTexts}
    \cup {Arg(o, v) : o \in CountFlags \cup TimeoutFlags, v \in IntTexts}
    \cup {Arg(o, <<>>) : o \in VersionFlags \cup {"--bogus"}}

CommandLines == UNION {[1..n -> ArgItems] : n \in 0..MaxArgs}

Environs == {[n \in S |-> "key"] : S \in SUBSET {"NEWS_KEY"}}

Statuses == {200, 304, 399, 400, 404, 500, 599, 600}

Responses == [status_code : Statuses, json_body : BOOLEAN]

NoResponse == [status_code |-> 0, json_body |-> FALSE]

\* -------------------------------------------------------------- main: state
VARIABLES pc, argv, environ, args, stdout, stderr, requests, response, exitCode, steps

\* A direct call of the function returned by verify_int_range(lower, upper).
VARIABLES vcall, vresult

mainVars == <<pc, argv, environ, args, stdout, stderr, requests, response, exitCode, steps>>
valVars == <<vcall, vresult>>
vars == <<mainVars, valVars>>

NoCall == [lower |-> 0, upper |-> 0, text |-> <<>>]
NoResult == [done |-> FALSE, ok |-> FALSE, val |-> 0]

Init ==
    /\ pc = "parse_args"
    /\ argv \in CommandLines
    /\ environ \in Environs
    /\ args = DefaultNamespace
    /\ stdout = <<>>
    /\ stderr = <<>>
    /\ requests = <<>>
    /\ response = NoResponse
    /\ exitCode = {}
    /\ steps = <<>>
    /\ vcall = NoCall
    /\ vresult = NoResult

\* args = parser.parse_args(); print(f"args are {args}")
ParseArgs ==
    /\ pc = "parse_args"
    /\ steps' = Append(steps, "parse_args")
    /\ LET r == parse_args(argv)
       IN  IF r.status = "ok"
           THEN /\ args' = r.ns
                /\ stdout' = Append(stdout, "args")
                /\ pc' = "check_key"
                /\ UNCHANGED <<stderr, exitCode>>
           ELSE IF r.status = "version"
           THEN /\ stdout' = Append(stdout, "version")
                /\ pc' = "exit"
                /\ exitCode' = {VersionExit}
                /\ UNCHANGED <<args, stderr>>
           ELSE /\ stderr' = Append(stderr, "usage")
                /\ pc' = "exit"
                /\ exitCode' = {ArgparseErrorExit}
                /\ UNCHANGED <<args, stdout>>
    /\ UNCHANGED <<argv, environ, requests, response>>
    /\ UNCHANGED valVars

\* Variant: the missing key is reported with argparse's status.
CheckKey_wrong_status ==
    /\ pc = "check_key"
    /\ steps' = Append(steps, "check_key")
    /\ IF "NEWS_KEY" \notin DOMAIN environ
       THEN /\ stderr' = Append(stderr, "no_api_key")
            /\ exitCode' = {ArgparseErrorExit}
            /\ pc' = "exit"
       ELSE /\ pc' = "request"
            /\ UNCHANGED <<stderr, exitCode>>
    /\ UNCHANGED <<argv, environ, args, stdout, requests, response>>
    /\ UNCHANGED valVars

\* Variant: the key is looked up before the arguments are parsed.
CheckKey_early ==
    /\ pc \in {"parse_args", "check_key"}
    /\ steps' = Append(steps, "check_key")
    /\ IF "NEWS_KEY" \notin DOMAIN environ
       THEN /\ stderr' = Append(stderr, "no_api_key")
            /\ exitCode' = {MissingKeyExit}
            /\ pc' = "exit"
       ELSE /\ pc = "check_key"
            /\ pc' = "request"
            /\ UNCHANGED <<stderr, exitCode>>
    /\ UNCHANGED <<argv, environ, args, stdout, requests, response>>
    /\ UNCHANGED valVars

\* if not "NEWS_KEY" in environ: print(..., file=stderr); exit(22)
CheckKey ==
    /\ pc = "check_key"
    /\ steps' = Append(steps, "check_key")
    /\ IF "NEWS_KEY" \notin DOMAIN environ
       THEN /\ stderr' = Append(stderr, "no_api_key")
            /\ exitCode' = {MissingKeyExit}
            /\ pc' = "exit"
       ELSE /\ pc' = "request"
            /\ UNCHANGED <<stderr, exitCode>>
    /\ UNCHANGED <<argv, environ, args, stdout, requests, response>>
    /\ UNCHANGED valVars

\* The call made by main: requests.get(url=BASE_URL, params=payload).
\* No timeout argument is passed, so the call carries none.
GetCall ==
    LET query == JoinSpace(args.topic)
        payload == [q |-> query, lang |-> "en", country |-> "us",
                    max |-> PyStr(args.article_count), apikey |-> environ["NEWS_KEY"]]
    IN  [url |-> BASE_URL, params |-> payload, timeout |-> <<>>]

\* requests.get either returns a response or raises a network error, which
\* main does not catch.
SendRequest ==
    /\ pc = "request"
    /\ steps' = Append(steps, "request")
    /\ requests' = Append(requests, GetCall)
    /\ \/ \E resp \in Responses :
             /\ response' = resp
             /\ pc' = "raise_for_status"
             /\ UNCHANGED <<exitCode, stderr>>
       \/ /\ pc' = "exit"
          /\ exitCode' = {UncaughtExit}
          /\ stderr' = Append(stderr, "traceback")
          /\ UNCHANGED response
    /\ UNCHANGED <<argv, environ, args, stdout>>
    /\ UNCHANGED valVars

\* Variant: only client errors raise.
IsHTTPError_client_only(status_code) == 400 <= status_code /\ status_code < 500

\* Response.raise_for_status raises HTTPError for 4xx and 5xx.
IsHTTPError(status_code) == 400 <= status_code /\ status_code < 600

RaiseForStatus ==
    /\ pc = "raise_for_status"
    /\ steps' = Append(steps, "raise_for_status")
    /\ IF IsHTTPError(response.status_code)
       THEN /\ pc' = "exit"
            /\ exitCode' = {UncaughtExit}
            /\ stderr' = Append(stderr, "traceback")
       ELSE /\ pc' = "print"
            /\ UNCHANGED <<exitCode, stderr>>
    /\ UNCHANGED <<argv, environ, args, stdout, requests, response>>
    /\ UNCHANGED valVars

\* data = response.json(); pprint(data)
PrintJson ==
    /\ pc = "print"
    /\ steps' = Append(steps, "print")
    /\ pc' = "exit"
    /\ IF response.json_body
       THEN /\ stdout' = Append(stdout, "json")
            /\ exitCode' = {SuccessExit}
            /\ UNCHANGED stderr
       ELSE /\ exitCode' = {UncaughtExit}
            /\ stderr' = Append(stderr, "traceback")
            /\ UNCHANGED stdout
    /\ UNCHANGED <<argv, environ, args, requests, response>>
    /\ UNCHANGED valVars

Next == ParseArgs \/ CheckKey \/ SendRequest \/ RaiseForStatus \/ PrintJson

Spec == Init /\ [][Next]_vars

\* ------------------------------------------- verify_int_range called alone
IntAlphabet == {"0", "1", "2", "5", "6", "9", "-", "+", "_", " ", "a"}
Texts == UNION {[1..n -> IntAlphabet] : n \in 0..MaxTextLen}
LowerBounds == {0 - 1, IntLower, 1}
UpperBounds == {2, IntUpper, TimeoutUpper}

InitInt ==
    /\ pc = "idle"
    /\ argv = <<>>
    /\ environ = <<>>
    /\ args = DefaultNamespace
    /\ stdout = <<>>
    /\ stderr = <<>>
    /\ requests = <<>>
    /\ response = NoResponse
    /\ exitCode = {}
    /\ steps = <<>>
    /\ vcall \in [lower : LowerBounds, upper : UpperBounds, text : Texts]
    /\ vresult = NoResult

CallIntRange ==
    /\ pc = "idle"
    /\ ~vresult.done
    /\ LET r == verify_int_range_inner(vcall.lower, vcall.upper, vcall.text)
       IN  vresult' = [done |-> TRUE, ok |-> r.ok, val |-> r.val]
    /\ UNCHANGED <<mainVars, vcall>>

NextInt == CallIntRange

SpecInt == InitInt /\ [][NextInt]_vars

\* ------------------------------------------------------------- properties
AfterParse == steps # <<>>
ParseFailed == steps = <<"parse_args">> /\ pc = "exit"
ParseOk == AfterParse /\ ~ParseFailed
KeyPresent == "NEWS_KEY" \in DOMAIN environ
NonZeroExit == exitCode # {} /\ 0 \notin exitCode
Contains(seq, x) == \E i \in 1..Len(seq) : seq[i] = x

TopicAt(i) == argv[i].opt \in TopicFlags
TopicIndices == {i \in 1..Len(argv) : TopicAt(i)}
ValidTopicLength(n) == 1 <= n /\ n <= 254

\* The topic values of a command line, in occurrence order.
RECURSIVE TopicValues(_)
TopicValues(av) ==
    IF av = <<>> THEN <<>>
    ELSE (IF Head(av).opt \in TopicFlags THEN <<Head(av).val>> ELSE <<>>)
         \o TopicValues(Tail(av))

\* The topic values of a command line written one after the other, a single
\* space before each one but the first.
RECURSIVE QueryOf(_, _, _)
QueryOf(av, acc, first) ==
    IF av = <<>> THEN acc
    ELSE IF Head(av).opt \in TopicFlags
         THEN QueryOf(Tail(av),
                      IF first THEN Head(av).val ELSE acc \o <<" ">> \o Head(av).val,
                      FALSE)
         ELSE QueryOf(Tail(av), acc, first)

\* A command line of valid topics and exactly one occurrence of an option
\* among flags.
OneOptionShape(flags) ==
    /\ TopicIndices # {}
    /\ \A i \in TopicIndices : ValidTopicLength(Len(argv[i].val))
    /\ Cardinality({i \in 1..Len(argv) : argv[i].opt \in flags}) = 1
    /\ \A i \in 1..Len(argv) : argv[i].opt \in TopicFlags \cup flags

TheText(flags) == argv[CHOOSE i \in 1..Len(argv) : argv[i].opt \in flags].val

\* C1: every GET issued by main carries the parsed timeout as its timeout.
C1_RequestCarriesParsedTimeout ==
    \A i \in 1..Len(requests) : requests[i].timeout = <<args.timeout>>

\* C2: a --topic/-t value of length 1..254 is stored unchanged in the topic
\* list; a value of length 0 or of length 255 or more makes parsing fail
\* with a non-zero status.
C2_TopicLengthEnforced ==
    (AfterParse /\ Len(argv) = 1 /\ TopicAt(1))
        => IF ValidTopicLength(Len(argv[1].val))
           THEN ParseOk /\ args.topic = <<argv[1].val>>
           ELSE ParseFailed /\ NonZeroExit

C4_MissingKeyExits22 ==
    (ParseOk /\ ~KeyPresent)
        => /\ requests = <<>>
           /\ ~Contains(stdout, "json")
           /\ Contains(steps, "check_key")
                => /\ pc = "exit"
                   /\ exitCode = {22}
                   /\ stderr = <<"no_api_key">>

C4_Witness ==
    /\ ParseOk
    /\ ~KeyPresent
    /\ pc = "exit"
    /\ exitCode = {22}

C7_ArticleCountIn2To25 ==
    ParseOk => args.article_count \in 2..25

\* C7 amended: every successfully parsed article_count lies in [1,25].
C7_ArticleCountIn1To25 ==
    ParseOk => args.article_count \in 1..25

C7_Witness ==
    /\ ParseOk
    /\ \E i \in 1..Len(argv) : argv[i].opt \in CountFlags
    /\ args.article_count = 1

\* C8: the parsed topic list holds the topic values of the command line in
\* occurrence order, one element per occurrence, whatever the spelling of
\* the flag; the query sent is those values separated by single spaces; a
\* command line of valid topics only parses, one without a topic does not.
C8_TopicsInOrder ==
    /\ ParseOk
         => /\ args.topic = TopicValues(argv)
            /\ Len(args.topic) = Cardinality(TopicIndices)
            /\ Len(args.topic) >= 1
    /\ \A i \in 1..Len(requests) : requests[i].params.q = QueryOf(argv, <<>>, TRUE)
    /\ (AfterParse /\ TopicIndices = {}) => ~ParseOk
    /\ (/\ AfterParse
        /\ TopicIndices = 1..Len(argv)
        /\ argv # <<>>
        /\ \A i \in TopicIndices : ValidTopicLength(Len(argv[i].val)))
         => ParseOk

C8_Witness ==
    /\ argv = <<Arg("--topic", <<"b">>), Arg("-t", <<"a">>)>>
    /\ Len(requests) = 1
    /\ requests[1].params.q = <<"b", " ", "a">>

\* C9: a 4xx or 5xx response ends the run with a non-zero status, no JSON on
\* standard output and no further request; JSON is printed only for a
\* response that is not an error.
C9_ErrorStatusIsFatal ==
    /\ (Contains(steps, "raise_for_status") /\ response.status_code \in 400..599)
         => /\ pc = "exit"
            /\ NonZeroExit
            /\ ~Contains(stdout, "json")
            /\ Len(requests) = 1
    /\ Contains(stdout, "json")
         => /\ response.status_code \notin 400..599
            /\ Len(requests) = 1

C9_Witness ==
    /\ Contains(steps, "raise_for_status")
    /\ response.status_code = 500
    /\ pc = "exit"
    /\ exitCode = {1}

\* C10: the steps of main run in the order parse, key check, request, print;
\* at most one GET is issued, and only after a successful parse with
\* NEWS_KEY present; when parsing ends the run the key is never checked and
\* the status is argparse's, never 22, also when NEWS_KEY is absent.
MainOrder == <<"parse_args", "check_key", "request", "raise_for_status", "print">>

C10_FixedOrder ==
    /\ Len(steps) <= Len(MainOrder)
    /\ steps = SubSeq(MainOrder, 1, Len(steps))
    /\ Len(requests) <= 1
    /\ requests # <<>> => (ParseOk /\ KeyPresent /\ Contains(steps, "check_key"))
    /\ (pc = "exit" /\ (TopicIndices = {}
                        \/ \E i \in 1..Len(argv) : argv[i].opt \notin TopicFlags \cup CountFlags \cup TimeoutFlags))
         => /\ exitCode \in {{0}, {2}}
            /\ ~Contains(steps, "check_key")
            /\ requests = <<>>
    /\ ParseFailed => exitCode \in {{0}, {2}}

C10_Witness ==
    /\ pc = "exit"
    /\ ~KeyPresent
    /\ argv = <<Arg("-c", <<"a">>)>>
    /\ exitCode = {2}

====
